---- MODULE Spec2Model ----
(***************************************************************************)
(* Model of the OpenZeppelin language server: the code-action handler of   *)
(* server.ts, the "move all variables to namespace" quick fix, the         *)
(* Solidity version resolution and the per-document settings cache.        *)
(*                                                                         *)
(* A document is a sequence of terminals.  A range is a pair <<from, to>>  *)
(* of terminal offsets, from inclusive and to exclusive.                   *)
(***************************************************************************)
EXTENDS Integers, Sequences, FiniteSets, TLC

VARIABLES doc, diags, req, action, applied,
          batch, codeActions,
          verIn, verOut,
          hasConfigurationCapability, documentSettings, open, epoch, inflight

vars == <<doc, diags, req, action, applied, batch, codeActions, verIn, verOut,
          hasConfigurationCapability, documentSettings, open, epoch, inflight>>

fixVars == <<doc, diags, req, action, applied>>
batchVars == <<batch, codeActions>>
verVars == <<verIn, verOut>>
cacheVars == <<hasConfigurationCapability, documentSettings, open, epoch, inflight>>

(* ---------------------------- bounds ----------------------------------- *)
MaxVars == 2
MaxApplies == 2
MaxBatch == 3
MaxFolders == 2
MaxEpoch == 2
MaxInflight == 1

(* ---------------------------- terminals -------------------------------- *)
Tok(k, n) == [k |-> k, n |-> n, pub |-> FALSE]
VarTok(n, p) == [k |-> "var", n |-> n, pub |-> p]

Undefined == [kind |-> "undefined"]

Prefix == "erc7201"

getNamespaceId(prefix, contractName) == prefix \o ".storage." \o contractName

toStorageStructName(contractName) == contractName \o "Storage"

Min(S) == CHOOSE x \in S : \A y \in S : x <= y

RECURSIVE SortedSeq(_)
SortedSeq(S) == IF S = {} THEN <<>> ELSE <<Min(S)>> \o SortedSeq(S \ {Min(S)})

IsOpener(t) == t.k \in {"contract", "struct", "open"}

(* index of the terminal closing the node opened at i (end of text if the
   node is never closed) *)
EndOf(d, i) ==
    LET bal(j) == Cardinality({k \in i..j : IsOpener(d[k])})
                  - Cardinality({k \in i..j : d[k].k = "close"})
        S == {j \in i..Len(d) : bal(j) = 0}
    IN IF S = {} THEN Len(d) ELSE Min(S)

ContractDefinitions(d) == {i \in 1..Len(d) : d[i].k = "contract"}

(* the terminals i..e are zero or more contract members: comments, state
   variables, structs of fields, and functions or constructors with a block of
   identifiers *)
RECURSIVE Members(_, _, _)
Members(d, i, e) ==
    IF i > e THEN TRUE
    ELSE IF d[i].k \in {"natspec", "var"} THEN Members(d, i + 1, e)
    ELSE IF d[i].k = "struct"
         THEN LET j == EndOf(d, i)
              IN /\ j <= e
                 /\ d[j].k = "close"
                 /\ \A k \in (i + 1)..(j - 1) : d[k].k = "field"
                 /\ Members(d, j + 1, e)
    ELSE IF d[i].k \in {"func", "ctor"}
         THEN /\ i + 1 <= e
              /\ d[i + 1].k = "open"
              /\ LET j == EndOf(d, i + 1)
                 IN /\ j <= e
                    /\ d[j].k = "close"
                    /\ \A k \in (i + 2)..(j - 1) : d[k].k \in {"id", "getter"}
                    /\ Members(d, j + 1, e)
    ELSE FALSE

(* language.parse(ContractDefinition, cursorNode.unparse()).isValid *)
isValid(d, c) ==
    LET e == EndOf(d, c)
    IN e > c /\ d[e].k = "close" /\ Members(d, c + 1, e - 1)

(* ------------------------ quick fix: helpers --------------------------- *)
slangToVSCodeRange(r) == r

Edit(r, text, tag) == [range |-> r, newText |-> text, tag |-> tag]

Names(variables) == {variables[i].name : i \in 1..Len(variables)}

RECURSIVE Flatten(_)
Flatten(ss) == IF ss = <<>> THEN <<>> ELSE Head(ss) \o Flatten(Tail(ss))

(* the struct, its canonical annotation and the accessor function *)
printNamespaceTemplate(prefix, contractName, variables) ==
    <<Tok("natspec", getNamespaceId(prefix, contractName)),
      Tok("struct", toStorageStructName(contractName))>>
    \o [i \in 1..Len(variables) |-> variables[i].content]
    \o <<Tok("close", ""), Tok("func", "_get"), Tok("open", ""), Tok("close", "")>>

printPublicGetter(name, structName) ==
    <<Tok("func", name), Tok("open", ""), Tok("getter", structName),
      Tok("id", "$"), Tok("id", name), Tok("close", "")>>

(* the identifiers of the block opened at b that name a moved variable *)
replaceVariables(d, b, variables) ==
    LET ids == {j \in b..EndOf(d, b) : d[j].k = "id" /\ d[j].n \in Names(variables)}
        s == SortedSeq(ids)
    IN [i \in 1..Len(s) |->
          Edit(slangToVSCodeRange(<<s[i], s[i] + 1>>),
               <<Tok("id", "$"), Tok("id", d[s[i]].n)>>, "ident")]

addStorageGetter(d, b, contractName) ==
    LET expectedLine == Tok("getter", toStorageStructName(contractName))
    IN IF \A j \in b..EndOf(d, b) : d[j] # expectedLine
       THEN <<Edit(slangToVSCodeRange(<<b, b + 1>>),
                   <<Tok("open", ""), expectedLine>>, "pointer")>>
       ELSE <<>>

(* the constructors and function bodies of the contract at c, in text order *)
Bodies(d, c) == {i \in c..EndOf(d, c) : d[i].k \in {"func", "ctor"}}

(* variant: the storage pointer is inserted in every body, referenced or not *)
editNamespaceVariablesInFunctions_Always(d, c, contractName, variables) ==
    LET s == SortedSeq(Bodies(d, c))
        one(f) == replaceVariables(d, f + 1, variables)
                  \o addStorageGetter(d, f + 1, contractName)
    IN Flatten([i \in 1..Len(s) |-> one(s[i])])

editNamespaceVariablesInFunctions(d, c, contractName, variables) ==
    LET s == SortedSeq(Bodies(d, c))
        one(f) == LET r == replaceVariables(d, f + 1, variables)
                  IN IF r # <<>> THEN r \o addStorageGetter(d, f + 1, contractName)
                     ELSE r
    IN Flatten([i \in 1..Len(s) |-> one(s[i])])

getNamespaceStructEndRange(d, c, prefix, contractName) ==
    LET e == EndOf(d, c)
        nat == {j \in c..e : d[j].k = "natspec"}
        cl == {j \in (c + 1)..e : d[j].k = "close"}
    IN IF nat # {} /\ d[Min(nat)].n = getNamespaceId(prefix, contractName)
       THEN <<Min(cl), Min(cl) + 1>>
       ELSE <<>>

editNewNamespace(prefix, contractName, variables) ==
    <<Edit(variables[1].range,
           printNamespaceTemplate(prefix, contractName, variables), "template")>>
    \o [i \in 1..(Len(variables) - 1) |->
          Edit(variables[i + 1].range, <<>>, "delete")]

editExistingNamespace(contractName, variables, structEndRange) ==
    LET one(v) ==
          <<IF v.publicGetter
            THEN Edit(v.range,
                      printPublicGetter(v.name, toStorageStructName(contractName)),
                      "publicGetter")
            ELSE Edit(v.range, <<>>, "delete"),
            Edit(slangToVSCodeRange(structEndRange),
                 <<v.content, Tok("close", "")>>, "field")>>
    IN Flatten([i \in 1..Len(variables) |-> one(variables[i])])

(* variant: the empty variable list is only rejected when the contract is
   not found; otherwise an action without variable edits is returned *)
getMoveAllVariablesToNamespaceQuickFix_LateCheck(prefix, contractName, variables, d) ==
    LET m == {c \in ContractDefinitions(d) : isValid(d, c) /\ d[c].n = contractName}
        found == m # {}
        c == Min(m)
        edits == IF found
                 THEN editNamespaceVariablesInFunctions(d, c, contractName, variables)
                 ELSE <<>>
    IN IF Len(variables) = 0 /\ ~found THEN Undefined
       ELSE [kind |-> "action",
             edits |-> edits \o
                 (IF Len(variables) = 0 THEN <<>>
                  ELSE editNewNamespace(prefix, contractName, variables))]

getMoveAllVariablesToNamespaceQuickFix(prefix, contractName, variables, d) ==
    LET m == {c \in ContractDefinitions(d) : isValid(d, c) /\ d[c].n = contractName}
        found == m # {}
        c == Min(m)
        namespaceStructEndRange ==
            IF found THEN getNamespaceStructEndRange(d, c, prefix, contractName)
            ELSE <<>>
        edits == IF found
                 THEN editNamespaceVariablesInFunctions(d, c, contractName, variables)
                 ELSE <<>>
    IN IF Len(variables) = 0 THEN Undefined
       ELSE [kind |-> "action",
             edits |-> edits \o
                 (IF namespaceStructEndRange = <<>>
                  THEN editNewNamespace(prefix, contractName, variables)
                  ELSE editExistingNamespace(contractName, variables,
                                             namespaceStructEndRange))]

(* --------------------------- validation -------------------------------- *)
Variable(d, j) ==
    [name |-> d[j].n, range |-> <<j, j + 1>>,
     content |-> Tok("field", d[j].n), publicGetter |-> d[j].pub]

(* the contracts that can be namespaced: at least one free variable and no
   struct carrying the canonical annotation *)
validateNamespaces(d) ==
    LET cs == SortedSeq({c \in ContractDefinitions(d) : isValid(d, c)})
        free(c) == SortedSeq({j \in c..EndOf(d, c) : d[j].k = "var"})
        hasStruct(c) ==
            \E j \in c..(EndOf(d, c) - 1) :
                /\ d[j] = Tok("natspec", getNamespaceId(Prefix, d[c].n))
                /\ d[j + 1].k = "struct"
        one(c) == IF free(c) # <<>> /\ ~hasStruct(c)
                  THEN <<[name |-> d[c].n,
                          variables |-> [i \in 1..Len(free(c)) |-> Variable(d, free(c)[i])]]>>
                  ELSE <<>>
    IN Flatten([i \in 1..Len(cs) |-> one(cs[i])])

validateTextDocument(d) == validateNamespaces(d)

(* --------------------------- documents --------------------------------- *)
VarNames == <<"x", "y", "z">>
ContractNames == {"Foo", "Bar"}

Id(n) == Tok("id", n)
Fn(ids) == <<Tok("func", "f"), Tok("open", "")>> \o ids \o <<Tok("close", "")>>
Ctor(ids) == <<Tok("ctor", ""), Tok("open", "")>> \o ids \o <<Tok("close", "")>>
Contract(c, members) == <<Tok("contract", c)>> \o members \o <<Tok("close", "")>>

VarDecls(n) == [i \in 1..n |-> VarTok(VarNames[i], i = 1)]

NamespaceStruct(c) ==
    <<Tok("natspec", getNamespaceId(Prefix, c)),
      Tok("struct", toStorageStructName(c)), Tok("field", "w"), Tok("close", "")>>

HeadOpts(c) ==
    { <<>>,
      <<Tok("natspec", "")>>,
      NamespaceStruct(c),
      Fn(<<Id("q")>>) \o NamespaceStruct(c) }

BodyOpts(c) ==
    { <<>>,
      Fn(<<Id("x")>>),
      Fn(<<Tok("getter", toStorageStructName(c)), Id("x")>>),
      Ctor(<<Id("y"), Id("x")>>) \o Fn(<<Id("q")>>) }

FooContracts ==
    { Contract("Foo", h \o VarDecls(n) \o b) :
        h \in HeadOpts("Foo"), n \in 0..MaxVars, b \in BodyOpts("Foo") }

(* what can precede the contract: another contract, an unparsable contract
   of the same name, a parseable contract of the same name *)
Before ==
    { Contract("Bar", VarDecls(1) \o Fn(<<Id("x")>>)),
      Contract("Foo", <<Tok("err", "")>>),
      Contract("Foo", VarDecls(1) \o Fn(<<Id("q")>>)) }

FollowingContracts ==
    { Contract("Foo", h \o VarDecls(n) \o Fn(<<Id("x")>>)) :
        h \in {<<>>, NamespaceStruct("Foo")}, n \in 1..MaxVars }

(* the annotated struct written after the variables *)
StructLast ==
    { Contract("Foo", VarDecls(n) \o NamespaceStruct("Foo") \o b) :
        n \in 1..MaxVars, b \in {<<>>, Fn(<<Id("x")>>)} }

Docs ==
    FooContracts \cup StructLast \cup Before \cup {<<>>}
    \cup { p \o f : p \in Before, f \in FollowingContracts }

(* ------------------------ applying an action --------------------------- *)
Overlap(e1, e2) == e1.range[1] < e2.range[2] /\ e2.range[1] < e1.range[2]

NoOverlap(edits) ==
    \A i, j \in 1..Len(edits) : i # j => ~Overlap(edits[i], edits[j])

Clamp(d, k) == IF k > Len(d) + 1 THEN Len(d) + 1 ELSE k

RECURSIVE applyEdits(_, _)
applyEdits(d, edits) ==
    IF edits = {} THEN d
    ELSE LET e == CHOOSE x \in edits : \A y \in edits : y.range[1] <= x.range[1]
             from == Clamp(d, e.range[1])
             to == Clamp(d, e.range[2])
         IN applyEdits(SubSeq(d, 1, from - 1) \o e.newText \o SubSeq(d, to, Len(d)),
                       edits \ {e})

EditSet(a) == {a.edits[i] : i \in 1..Len(a.edits)}

(* --------------------- the quick fix specification --------------------- *)
NoReq == [name |-> "", variables |-> <<>>, none |-> TRUE]
NotRun == [kind |-> "none"]

Datum(dg) == [name |-> dg.name, variables |-> dg.variables, none |-> FALSE]

(* the fix data a client can send back: those of the diagnostics it holds,
   and a datum whose variable list is empty *)
Datums(ds) ==
    {Datum(ds[i]) : i \in 1..Len(ds)}
    \cup {[name |-> c, variables |-> <<>>, none |-> FALSE] : c \in ContractNames}

Fresh(r, d) == \E i \in 1..Len(validateNamespaces(d)) : r = Datum(validateNamespaces(d)[i])

BatchInit == batch = <<>> /\ codeActions = <<>>
NoInput == [compilerVersion |-> <<>>, folders |-> <<>>, pragma |-> <<>>]
NotResolved == <<"?">>
VerInit == verIn = NoInput /\ verOut = NotResolved
CacheInit ==
    /\ hasConfigurationCapability = TRUE
    /\ documentSettings = {}
    /\ open = {}
    /\ epoch = 0
    /\ inflight = <<>>

Init ==
    /\ doc \in Docs
    /\ diags = <<>>
    /\ req = NoReq
    /\ action = NotRun
    /\ applied = 0
    /\ BatchInit /\ VerInit /\ CacheInit

Idle == req = NoReq

(* documents.onDidChangeContent: the text is replaced; the validation it
   starts computes diagnostics that are not sent anywhere *)
ChangeContent ==
    /\ Idle
    /\ \E d \in Docs : doc' = d
    /\ applied' = 0
    /\ UNCHANGED <<diags, req, action, batchVars, verVars, cacheVars>>

(* connection.languages.diagnostics.on: the client pulls the diagnostics *)
PullDiagnostics ==
    /\ Idle
    /\ diags' = validateTextDocument(doc)
    /\ UNCHANGED <<doc, req, action, applied, batchVars, verVars, cacheVars>>

(* a code-action request carrying one contract-can-be-namespaced diagnostic *)
RequestFix ==
    /\ Idle
    /\ \E r \in Datums(diags) :
         /\ req' = r
         /\ action' = getMoveAllVariablesToNamespaceQuickFix(Prefix, r.name, r.variables, doc)
    /\ UNCHANGED <<doc, diags, applied, batchVars, verVars, cacheVars>>

(* the client drops the returned action *)
Respond ==
    /\ ~Idle
    /\ req' = NoReq
    /\ action' = NotRun
    /\ UNCHANGED <<doc, diags, applied, batchVars, verVars, cacheVars>>

(* the client applies the returned action to the text; a first application
   is of a fix whose datum was computed from that text *)
ApplyFix ==
    /\ ~Idle
    /\ action.kind = "action"
    /\ NoOverlap(action.edits)
    /\ applied < MaxApplies
    /\ applied > 0 \/ Fresh(req, doc)
    /\ doc' = applyEdits(doc, EditSet(action))
    /\ applied' = applied + 1
    /\ req' = NoReq
    /\ action' = NotRun
    /\ UNCHANGED <<diags, batchVars, verVars, cacheVars>>

Next == ChangeContent \/ PullDiagnostics \/ RequestFix \/ Respond \/ ApplyFix

Spec == Init /\ [][Next]_vars

(* ------------------- properties of the quick fix ----------------------- *)
Count(edits, P(_)) == Cardinality({i \in 1..Len(edits) : P(edits[i])})

Requested == ~req.none

(* the first parseable contract named by the request, 0 if there is none *)
Target ==
    LET m == {c \in ContractDefinitions(doc) : isValid(doc, c) /\ doc[c].n = req.name}
    IN IF m = {} THEN 0 ELSE Min(m)

References(d, f, names) == \E j \in (f + 1)..EndOf(d, f + 1) : d[j].k = "id" /\ d[j].n \in names

HasPointerLine(d, f, c) ==
    \E j \in (f + 1)..EndOf(d, f + 1) : d[j] = Tok("getter", toStorageStructName(c))

(* the variable ranges of the request are those of the declarations in the
   current text *)
RangesCurrent ==
    \A i \in 1..Len(req.variables) :
        LET r == req.variables[i].range
        IN /\ r[1] <= Len(doc)
           /\ doc[r[1]].k = "var"
           /\ doc[r[1]].n = req.variables[i].name

(* C1: in every returned move-to-namespace action no two edits have
   overlapping or identical ranges (stated for requests whose variable ranges
   are still those of the current text). *)
C1_NoOverlap ==
    (action.kind = "action" /\ RangesCurrent) => NoOverlap(action.edits)

(* C2: a request with a non-empty variable list naming a contract that is not
   in the current text (absent, or unparsable and skipped) returns undefined. *)
C2_StaleContractUndefined ==
    (Requested /\ Len(req.variables) > 0 /\ Target = 0) => action = Undefined

(* C4: when the named contract is in the text, every edit range of the
   returned action denotes a terminal of the text current at the request: the
   replaced or deleted declarations are variable declarations of that text,
   not positions recorded earlier. *)
C4_RangesFromCurrentText ==
    (action.kind = "action" /\ Target # 0) =>
        \A i \in 1..Len(action.edits) :
            LET e == action.edits[i]
                k == IF e.tag \in {"template", "delete", "publicGetter"} THEN "var"
                     ELSE IF e.tag = "ident" THEN "id"
                     ELSE IF e.tag = "pointer" THEN "open"
                     ELSE "close"
            IN /\ e.range[1] <= Len(doc)
               /\ e.range[2] = e.range[1] + 1
               /\ doc[e.range[1]].k = k

(* the contract whose free variables the request carries *)
Owner ==
    LET r == req.variables[1].range[1]
        m == {c \in ContractDefinitions(doc) : c < r /\ r < EndOf(doc, c)}
    IN IF m = {} THEN 0 ELSE Min(m)

NewStructCase ==
    /\ Requested
    /\ Fresh(req, doc)
    /\ Owner # 0
    /\ getNamespaceStructEndRange(doc, Owner, Prefix, req.name) = <<>>

VariableEdits ==
    LET N == Len(req.variables)
        onVar(e) == \E i \in 1..N : e.range = req.variables[i].range
        isTemplate(e) == e.tag = "template"
    IN /\ action.kind = "action"
       /\ Count(action.edits, onVar) = N
       /\ Count(action.edits, isTemplate) = 1
       /\ \A i \in 1..N :
            LET at(e) == e.range = req.variables[i].range
            IN Count(action.edits, at) = 1

PointerEdits(f) ==
    LET at(e) == e.tag = "pointer" /\ e.range = <<f + 1, f + 2>>
    IN Count(action.edits, at)

(* C5 as stated: N edits on the variables' ranges, one of them inserting the
   struct, and one storage-pointer insertion per body referencing a moved
   name, none for the other bodies. *)
C5_Orig ==
    NewStructCase =>
        /\ VariableEdits
        /\ \A f \in Bodies(doc, Owner) :
             PointerEdits(f) = IF References(doc, f, Names(req.variables)) THEN 1 ELSE 0

(* C5 amended: the same for the first parseable contract of its name, with
   one storage-pointer insertion per body that references a moved name and
   does not already contain the pointer declaration. *)
C5_EditCounts ==
    (NewStructCase /\ Owner = Target) =>
        /\ VariableEdits
        /\ \A f \in Bodies(doc, Owner) :
             PointerEdits(f) =
                IF /\ References(doc, f, Names(req.variables))
                   /\ ~HasPointerLine(doc, f, req.name)
                THEN 1 ELSE 0
        /\ Count(action.edits, LAMBDA e : e.tag = "pointer")
             = Cardinality({f \in Bodies(doc, Owner) : PointerEdits(f) = 1})

C5_Witness ==
    /\ NewStructCase /\ Owner = Target
    /\ Len(req.variables) = 2
    /\ \E f, g \in Bodies(doc, Owner) :
         /\ References(doc, f, Names(req.variables)) /\ PointerEdits(f) = 1
         /\ ~References(doc, g, Names(req.variables)) /\ PointerEdits(g) = 0

NoDuplicateFields(d) ==
    \A s \in {i \in 1..Len(d) : d[i].k = "struct"} :
        \A j, k \in s..EndOf(d, s) :
            (j # k /\ d[j].k = "field" /\ d[k].k = "field") => d[j].n # d[k].n

NoDuplicatePointer(d) ==
    \A b \in {i \in 1..Len(d) : d[i].k = "open"} :
        \A j, k \in b..EndOf(d, b) :
            (d[j].k = "getter" /\ d[k].k = "getter" /\ d[j] = d[k]) => j = k

(* C7: after the fix has run twice, the second time on the text produced by
   the first run, no struct has a duplicated field and no body has a second
   storage-pointer declaration. *)
C7_Idempotent == applied = 2 => NoDuplicateFields(doc) /\ NoDuplicatePointer(doc)

(* C8: a request whose variable list is empty yields undefined, never an
   action, whatever the text contains. *)
C8_EmptyListUndefined ==
    (Requested /\ Len(req.variables) = 0) => action = Undefined

C8_Witness ==
    /\ Requested /\ Len(req.variables) = 0 /\ action = Undefined
    /\ Target # 0
    /\ getNamespaceStructEndRange(doc, Target, Prefix, req.name) # <<>>
    /\ Bodies(doc, Target) # {}

(* the struct of the contract at c that carries its canonical annotation,
   0 if there is none *)
AnnotatedStruct(d, c) ==
    LET m == {j \in (c + 1)..EndOf(d, c) :
                 /\ d[j].k = "struct"
                 /\ d[j - 1] = Tok("natspec", getNamespaceId(Prefix, d[c].n))}
    IN IF m = {} THEN 0 ELSE Min(m)

FieldEdits == SelectSeq(action.edits, LAMBDA e : e.tag = "field")

(* C11: when the contract has a struct carrying its canonical annotation, the
   fix inserts each moved variable's declaration as a new field right before
   the closing brace of that struct, in declaration order, and no insertion
   shares the range of another, so that none is overwritten. *)
C11_FieldsBeforeStructEnd ==
    (action.kind = "action" /\ Target # 0 /\ AnnotatedStruct(doc, Target) # 0) =>
        LET close == EndOf(doc, AnnotatedStruct(doc, Target))
        IN /\ Len(FieldEdits) = Len(req.variables)
           /\ \A i \in 1..Len(FieldEdits) :
                /\ FieldEdits[i].range = <<close, close + 1>>
                /\ FieldEdits[i].newText[1] = req.variables[i].content
           /\ NoOverlap(FieldEdits)

(* ------------------------- getCodeActions ------------------------------ *)
NAMESPACE_ID_MISMATCH == "namespace-id-mismatch"
NAMESPACE_ID_MISMATCH_HASH_COMMENT == "namespace-id-mismatch-hash-comment"
NAMESPACE_HASH_MISMATCH == "namespace-hash-mismatch"
NAMESPACE_STANDALONE_HASH_MISMATCH == "namespace-standalone-hash-mismatch"
CONTRACT_CAN_BE_NAMESPACED == "contract-can-be-namespaced"

MismatchCodes ==
    {NAMESPACE_ID_MISMATCH, NAMESPACE_ID_MISMATCH_HASH_COMMENT,
     NAMESPACE_HASH_MISMATCH, NAMESPACE_STANDALONE_HASH_MISMATCH}

Diagnostic(code, range, hasData, replacement, name, variables) ==
    [code |-> code, range |-> range, hasData |-> hasData,
     replacement |-> replacement, name |-> name, variables |-> variables]

getQuickFixReplacement(title, range, replacement) ==
    [title |-> title, edits |-> <<Edit(range, <<Tok("text", replacement)>>, "replace")>>]

TitleOf(code) ==
    IF code = NAMESPACE_ID_MISMATCH THEN "Replace namespace id"
    ELSE IF code = NAMESPACE_ID_MISMATCH_HASH_COMMENT THEN "Replace namespace comment"
    ELSE IF code = NAMESPACE_HASH_MISMATCH THEN "Recalculate hash using comment"
    ELSE "Recalculate hash using expected id"

(* reading a field of diagnostic.data throws when the diagnostic has no data *)
Throws(dg) == dg.code \in MismatchCodes \cup {CONTRACT_CAN_BE_NAMESPACED} /\ ~dg.hasData

(* the actions one iteration of the loop pushes *)
Pushed(dg, d) ==
    IF dg.code \in MismatchCodes
    THEN <<getQuickFixReplacement(TitleOf(dg.code), dg.range, dg.replacement)>>
    ELSE IF dg.code = CONTRACT_CAN_BE_NAMESPACED
    THEN LET quickfix == getMoveAllVariablesToNamespaceQuickFix(
                              Prefix, dg.name, dg.variables, d)
         IN IF quickfix # Undefined
            THEN <<[title |-> "Move all variables to namespace", edits |-> quickfix.edits]>>
            ELSE <<>>
    ELSE <<>>

Tagged(as, i) == [k \in 1..Len(as) |-> [for |-> i, title |-> as[k].title, edits |-> as[k].edits]]

(* the loop runs inside one try block: the first throw ends it, and what was
   pushed before is returned *)
RECURSIVE getCodeActionsFrom(_, _, _, _)
getCodeActionsFrom(diagnostics, d, i, acc) ==
    IF i > Len(diagnostics) THEN acc
    ELSE IF Throws(diagnostics[i]) THEN acc
    ELSE getCodeActionsFrom(diagnostics, d, i + 1,
                            acc \o Tagged(Pushed(diagnostics[i], d), i))

getCodeActions(diagnostics, d) == getCodeActionsFrom(diagnostics, d, 1, <<>>)

(* --------------------- the code action specification ------------------- *)
BatchDocs ==
    { Contract("Foo", VarDecls(1) \o Fn(<<Id("x")>>)),
      Contract("Foo", NamespaceStruct("Foo") \o VarDecls(2) \o Fn(<<Id("y")>>)) }

DiagnosticChoices(d) ==
    { Diagnostic(c, <<2, 3>>, TRUE, "canonical", "", <<>>) : c \in MismatchCodes }
    \cup { Diagnostic(NAMESPACE_ID_MISMATCH, <<2, 3>>, FALSE, "", "", <<>>),
           Diagnostic(CONTRACT_CAN_BE_NAMESPACED, <<1, 2>>, FALSE, "", "", <<>>),
           Diagnostic("other", <<1, 2>>, FALSE, "", "", <<>>) }
    \cup { Diagnostic(CONTRACT_CAN_BE_NAMESPACED, <<1, 2>>, TRUE, "",
                      validateNamespaces(d)[i].name, validateNamespaces(d)[i].variables) :
             i \in 1..Len(validateNamespaces(d)) }

Batches(d) == UNION { [1..n -> DiagnosticChoices(d)] : n \in 1..MaxBatch }

FixInit == diags = <<>> /\ req = NoReq /\ action = NotRun /\ applied = 0

BatchSpecInit ==
    /\ doc \in BatchDocs
    /\ FixInit /\ BatchInit /\ VerInit /\ CacheInit

(* connection.onCodeAction for an open document *)
OnCodeAction ==
    /\ batch = <<>>
    /\ \E b \in Batches(doc) :
         /\ batch' = b
         /\ codeActions' = getCodeActions(b, doc)
    /\ UNCHANGED <<fixVars, verVars, cacheVars>>

(* the actions are returned to the client *)
ReturnCodeActions ==
    /\ batch # <<>>
    /\ batch' = <<>>
    /\ codeActions' = <<>>
    /\ UNCHANGED <<fixVars, verVars, cacheVars>>

BatchNext == OnCodeAction \/ ReturnCodeActions

SpecBatch == BatchSpecInit /\ [][BatchNext]_vars

ActionsFor(i) == SelectSeq(codeActions, LAMBDA a : a.for = i)

(* C3: when synthesizing the action of one diagnostic of a batch throws, the
   actions of every other diagnostic, before and after it, are still
   returned, as they are when that diagnostic is handled alone. *)
C3_ThrowIsolated ==
    \A j \in 1..Len(batch) :
        IF Throws(batch[j]) THEN ActionsFor(j) = <<>>
        ELSE ActionsFor(j) = Tagged(Pushed(batch[j], doc), j)

(* C6: each diagnostic of a mismatch kind gets exactly one action with exactly
   one edit, whose range is the diagnostic's range and whose text is its
   replacement datum. *)
C6_SingleReplacement ==
    \A j \in 1..Len(batch) :
        (batch[j].code \in MismatchCodes /\ batch[j].hasData) =>
            /\ Len(ActionsFor(j)) = 1
            /\ Len(ActionsFor(j)[1].edits) = 1
            /\ ActionsFor(j)[1].edits[1].range = batch[j].range
            /\ ActionsFor(j)[1].edits[1].newText = <<Tok("text", batch[j].replacement)>>

(* ----------------------- getSolidityVersion ---------------------------- *)
(* A version is a sequence of characters; the empty sequence is what a
   source yields when it has no version (undefined or ""). *)
None == <<>>

RECURSIVE TrimStart(_)
TrimStart(s) == IF s # <<>> /\ Head(s) = " " THEN TrimStart(Tail(s)) ELSE s

RECURSIVE TrimEnd(_)
TrimEnd(s) ==
    IF s # <<>> /\ s[Len(s)] = " " THEN TrimEnd(SubSeq(s, 1, Len(s) - 1)) ELSE s

trim(s) == TrimEnd(TrimStart(s))

(* a config file is "absent", "plain" (no version in it) or "version" *)
Digits == <<"1", "2", "3", "4", "5">>
VersionIn(kind, i) == <<kind, Digits[i]>>

exists(file) == file # "absent"

RECURSIVE foundryFrom(_, _)
foundryFrom(folders, i) ==
    IF i > Len(folders) THEN None
    ELSE IF exists(folders[i].foundry) /\ folders[i].foundry = "version"
         THEN VersionIn("foundry", i)
         ELSE foundryFrom(folders, i + 1)

inferSolidityVersionFromFoundry(folders) == foundryFrom(folders, 1)

(* an async function returns a promise, which is an object and so truthy
   whatever it resolves to *)
Promise(v) == [promise |-> TRUE, value |-> v]
Truthy(p) == p.promise \/ p.value # None
Await(p) == p.value

findVersionFromHardhatConfig(file, kind, i) ==
    Promise(IF exists(file) /\ file = "version" THEN VersionIn(kind, i) ELSE None)

RECURSIVE hardhatFrom(_, _)
hardhatFrom(folders, i) ==
    IF i > Len(folders) THEN None
    ELSE LET versionTs == findVersionFromHardhatConfig(folders[i].ts, "hardhat.ts", i)
             versionJs == findVersionFromHardhatConfig(folders[i].js, "hardhat.js", i)
         IN IF Truthy(versionTs) THEN Await(versionTs)
            ELSE IF Truthy(versionJs) THEN Await(versionJs)
            ELSE hardhatFrom(folders, i + 1)

inferSolidityVersionFromHardhat(folders) == hardhatFrom(folders, 1)

Latest == <<"latest">>

getSolidityVersion(in) ==
    LET versionFromSetting == in.compilerVersion
        versionFromFoundry == inferSolidityVersionFromFoundry(in.folders)
        versionFromHardhat == inferSolidityVersionFromHardhat(in.folders)
        versionFromPragma == in.pragma
    IN IF versionFromSetting # None /\ Len(trim(versionFromSetting)) > 0
       THEN versionFromSetting
       ELSE IF versionFromFoundry # None THEN versionFromFoundry
       ELSE IF versionFromHardhat # None THEN versionFromHardhat
       ELSE IF versionFromPragma # None THEN versionFromPragma
       ELSE Latest

(* --------------------- the version specification ----------------------- *)
Folders ==
    UNION { [1..n -> [foundry : {"absent", "version"},
                      ts : {"absent", "plain", "version"},
                      js : {"absent", "plain", "version"}]] : n \in 0..MaxFolders }

VersionInputs ==
    [compilerVersion : {<<>>, <<" ">>, <<"8">>, <<" ", "8">>},
     folders : Folders,
     pragma : {None, <<"pragma">>}]

VersionSpecInit ==
    /\ verIn \in VersionInputs
    /\ verOut = NotResolved
    /\ doc = <<>>
    /\ FixInit /\ BatchInit /\ CacheInit

ResolveVersion ==
    /\ verOut = NotResolved
    /\ verOut' = getSolidityVersion(verIn)
    /\ UNCHANGED <<verIn, fixVars, batchVars, cacheVars>>

VersionNext == ResolveVersion

SpecVersion == VersionSpecInit /\ [][VersionNext]_vars

(* what each source yields *)
SettingYield == IF Len(trim(verIn.compilerVersion)) > 0 THEN verIn.compilerVersion ELSE None

FoundryYield ==
    LET S == {i \in 1..Len(verIn.folders) : verIn.folders[i].foundry = "version"}
    IN IF S = {} THEN None ELSE VersionIn("foundry", Min(S))

HardhatYield ==
    LET S == {i \in 1..Len(verIn.folders) :
                 verIn.folders[i].ts = "version" \/ verIn.folders[i].js = "version"}
    IN IF S = {} THEN None
       ELSE IF verIn.folders[Min(S)].ts = "version" THEN VersionIn("hardhat.ts", Min(S))
       ELSE VersionIn("hardhat.js", Min(S))

(* C9: the version is the first that exists of: the non-blank setting, the
   version of a Foundry config, the version of a Hardhat config, the pragma
   version, the latest supported version; the result is always a version. *)
C9_Priority ==
    verOut # NotResolved =>
        /\ verOut # None
        /\ verOut = IF SettingYield # None THEN SettingYield
                    ELSE IF FoundryYield # None THEN FoundryYield
                    ELSE IF HardhatYield # None THEN HardhatYield
                    ELSE IF verIn.pragma # None THEN verIn.pragma
                    ELSE Latest

(* C12: the Hardhat lookup returns the first version found when each folder's
   hardhat.config.ts and then its hardhat.config.js are examined in folder
   order, and nothing only when no config has a version. *)
C12_HardhatFirstFound ==
    verOut # NotResolved =>
        inferSolidityVersionFromHardhat(verIn.folders) = HardhatYield

(* ---------------------- the settings cache ----------------------------- *)
URIs == {"a.sol", "b.sol"}

(* documentSettings maps a URI to the settings fetched for it; an entry
   records the configuration epoch at which it was fetched *)
(* getDocumentSettings: the cache after a lookup of u *)
getDocumentSettings(cache, u) ==
    IF ~hasConfigurationCapability THEN cache
    ELSE IF \E e \in cache : e.uri = u THEN cache
    ELSE cache \cup {[uri |-> u, at |-> epoch]}

(* getNamespacePrefix and inferSolidityVersion read the settings of the
   document they are given *)
getNamespacePrefix(cache, u) == getDocumentSettings(cache, u)
inferSolidityVersion(cache, u) == getDocumentSettings(cache, u)

CacheSpecInit ==
    /\ hasConfigurationCapability \in BOOLEAN
    /\ documentSettings = {}
    /\ open = {}
    /\ epoch = 0
    /\ inflight = <<>>
    /\ doc = <<>>
    /\ FixInit /\ BatchInit /\ VerInit

Frame == UNCHANGED <<fixVars, batchVars, verVars, hasConfigurationCapability>>

(* a document is opened: onDidChangeContent validates it, and the validation
   reads its settings before its first await *)
DidOpen ==
    /\ \E u \in URIs \ open :
         /\ open' = open \cup {u}
         /\ documentSettings' = getDocumentSettings(documentSettings, u)
    /\ UNCHANGED <<epoch, inflight>>
    /\ Frame

(* documents.onDidChangeContent for a change of an open document *)
DidChangeContent ==
    /\ \E u \in open : documentSettings' = getDocumentSettings(documentSettings, u)
    /\ UNCHANGED <<open, epoch, inflight>>
    /\ Frame

(* documents.onDidClose *)
DidClose ==
    /\ \E u \in open :
         /\ open' = open \ {u}
         /\ documentSettings' = {e \in documentSettings : e.uri # u}
    /\ UNCHANGED <<epoch, inflight>>
    /\ Frame

(* connection.onDidChangeConfiguration *)
DidChangeConfiguration ==
    /\ epoch < MaxEpoch
    /\ epoch' = epoch + 1
    /\ documentSettings' = IF hasConfigurationCapability THEN {} ELSE documentSettings
    /\ UNCHANGED <<open, inflight>>
    /\ Frame

(* connection.languages.diagnostics.on: an unknown document gets an empty
   report, an open one is validated *)
DiagnosticsRequest ==
    /\ \E u \in URIs :
         documentSettings' = IF u \in open
                             THEN getDocumentSettings(documentSettings, u)
                             ELSE documentSettings
    /\ UNCHANGED <<open, epoch, inflight>>
    /\ Frame

(* connection.onCodeAction with n contract-can-be-namespaced diagnostics: the
   handler runs up to the await of the first getNamespacePrefix *)
CodeActionRequest ==
    /\ Len(inflight) < MaxInflight
    /\ \E u \in open, n \in 1..MaxBatch :
         /\ documentSettings' = getNamespacePrefix(documentSettings, u)
         /\ inflight' = Append(inflight, [uri |-> u, left |-> n, pc |-> "prefix"])
    /\ UNCHANGED <<open, epoch>>
    /\ Frame

Without(q, i) == SubSeq(q, 1, i - 1) \o SubSeq(q, i + 1, Len(q))

(* getCodeActions resumes: after the prefix the quick fix is started and
   awaits inferSolidityVersion; after the version the quick fix completes and
   the loop goes to the next diagnostic, awaiting its getNamespacePrefix, or
   returns *)
CodeActionResume ==
    /\ \E i \in 1..Len(inflight) :
         LET r == inflight[i]
         IN IF r.pc = "prefix"
            THEN /\ documentSettings' = inferSolidityVersion(documentSettings, r.uri)
                 /\ inflight' = [inflight EXCEPT ![i].pc = "version"]
            ELSE IF r.left > 1
            THEN /\ documentSettings' = getNamespacePrefix(documentSettings, r.uri)
                 /\ inflight' = [inflight EXCEPT ![i].pc = "prefix", ![i].left = r.left - 1]
            ELSE /\ documentSettings' = documentSettings
                 /\ inflight' = Without(inflight, i)
    /\ UNCHANGED <<open, epoch>>
    /\ Frame

CacheNext ==
    \/ DidOpen \/ DidChangeContent \/ DidClose \/ DidChangeConfiguration
    \/ DiagnosticsRequest \/ CodeActionRequest \/ CodeActionResume

SpecCache == CacheSpecInit /\ [][CacheNext]_vars

(* C10: the settings cache holds entries only for open documents, and no
   entry fetched before a configuration change. *)
C10_CacheOnlyOpen ==
    \A e \in documentSettings : e.uri \in open /\ e.at = epoch

====
